---- MODULE Spec2Model ----
(***************************************************************************)
(* Model of dda_cli.py: the DraftEngine of the Dota 2 draft assistant and   *)
(* the DraftCLI that drives it.                                            *)
(*                                                                         *)
(* A Python str is a sequence of one-character strings, so that            *)
(* str.lower() is computed character by character.  A Python dict is kept  *)
(* with its insertion order: _hero_data is the sequence of Hero records in *)
(* load order, _hero_weights the sequence of its (key, value) items, and   *)
(* _hero_alias_map a function whose domain is its key set.                 *)
(***************************************************************************)
EXTENDS Integers, Sequences, FiniteSets, TLC

VARIABLES
    hero_data,       \* DraftEngine._hero_data: Hero records in insertion order
    hero_alias_map,  \* DraftEngine._hero_alias_map: str -> hero name
    hero_weights,    \* DraftEngine._hero_weights: items <<name, weight>> in insertion order
    bans,            \* DraftEngine._bans
    ally_picks,      \* DraftEngine._ally_picks
    enemy_picks,     \* DraftEngine._enemy_picks
    op,              \* the engine method called last ("init" after construction)
    arg,             \* the str argument of that call
    out,             \* the message it returned
    success,         \* the success flag it returned
    sorted_weights,  \* the list returned by the last sorted_hero_weights() call
    cmd,             \* DraftCLI: the line read by the last _prompt()
    printed,         \* DraftCLI: the lines printed since that line was read
    pc               \* DraftCLI: "prompt", "quit" or "AssertionError"; "engine" without a CLI

engine == <<hero_data, hero_alias_map, hero_weights, bans, ally_picks, enemy_picks,
            op, arg, out, success, sorted_weights>>

cli == <<cmd, printed, pc>>

vars == <<engine, cli>>

draft == <<bans, ally_picks, enemy_picks, hero_weights>>

-----------------------------------------------------------------------------
(* Python values *)

\* None, kept apart from every str: no str has a character of four letters
None == <<"None">>

\* The letters of the modelled strings: UpperCase[i] lowercases to LowerCase[i].
UpperCase == <<"A", "B", "C", "D", "E", "F", "G", "H", "I", "J", "K", "L", "M", "W", "Z", "N">>
LowerCase == <<"a", "b", "c", "d", "e", "f", "g", "h", "i", "j", "k", "l", "m", "w", "z", "n">>

\* one character of str.lower()
LowerChar(c) ==
    IF \E i \in DOMAIN UpperCase : UpperCase[i] = c
    THEN LowerCase[CHOOSE i \in DOMAIN UpperCase : UpperCase[i] = c]
    ELSE c

\* str.lower()
Lower(s) == [i \in DOMAIN s |-> LowerChar(s[i])]

\* str.upper(), used only to enumerate inputs in other letter cases
UpperChar(c) ==
    IF \E i \in DOMAIN LowerCase : LowerCase[i] = c
    THEN UpperCase[CHOOSE i \in DOMAIN LowerCase : LowerCase[i] = c]
    ELSE c

Upper(s) == [i \in DOMAIN s |-> UpperChar(s[i])]

\* the set of elements of a list
Range(s) == {s[i] : i \in DOMAIN s}

\* x in list
In(x, s) == \E i \in DOMAIN s : s[i] = x

\* number of occurrences of x in a list
Count(x, s) == Cardinality({i \in DOMAIN s : s[i] = x})

\* list[::-1]
Reverse(s) == [i \in DOMAIN s |-> s[Len(s) + 1 - i]]

\* dict[k] = v on a dict kept as a function
Put(m, k, v) == [x \in DOMAIN m \cup {k} |-> IF x = k THEN v ELSE m[x]]

EmptyMap == [x \in {} |-> None]

-----------------------------------------------------------------------------
(* class Hero *)

Hero(name, aliases, good_against, bad_against, works_well_with) ==
    [name |-> name, aliases |-> aliases, good_against |-> good_against,
     bad_against |-> bad_against, works_well_with |-> works_well_with]

\* Hero.pretty_print: the pieces of the returned text, in order
pretty_print(h) ==
    <<"Name: ", h.name, "Aliases: ", h.aliases, "Good against: ", h.good_against,
      "Bad against: ", h.bad_against, "Works well with: ", h.works_well_with>>

\* self._hero_data[hero_name]
HeroOf(data, hero_name) == data[CHOOSE i \in DOMAIN data : data[i].name = hero_name]

\* the keys of self._hero_data, in insertion order
HeroNames(data) == [i \in DOMAIN data |-> data[i].name]

-----------------------------------------------------------------------------
(* DraftEngine.__init__: the alias map *)

\* the inner loop of __init__: for hero_alias in aliases: map[hero_alias] = hero_name
RECURSIVE MapAliases(_, _, _)
MapAliases(m, aliases, hero_name) ==
    IF aliases = <<>> THEN m
    ELSE MapAliases(Put(m, Head(aliases), hero_name), Tail(aliases), hero_name)

\* the outer loop of __init__ over the heroes, in insertion order
RECURSIVE BuildAliasMap(_, _)
BuildAliasMap(m, heroes) ==
    IF heroes = <<>> THEN m
    ELSE LET h == Head(heroes)
             withAliases == MapAliases(m, h.aliases, h.name)
         IN BuildAliasMap(Put(withAliases, Lower(h.name), h.name), Tail(heroes))

\* the items of _hero_weights after reset(): every hero at 0, in insertion order
InitialWeights(data) == [i \in DOMAIN data |-> <<data[i].name, 0>>]

-----------------------------------------------------------------------------
(* _hero_weights as an insertion-ordered dict *)

\* the key set
Keys(w) == {w[i][1] : i \in DOMAIN w}

\* hero_name in self._hero_weights
HasKey(w, k) == \E i \in DOMAIN w : w[i][1] = k

\* self._hero_weights[k]
WeightOf(w, k) == w[CHOOSE i \in DOMAIN w : w[i][1] = k][2]

\* del self._hero_weights[k], guarded by "if k in self._hero_weights"
RemoveKey(w, k) == SelectSeq(w, LAMBDA item : item[1] # k)

\* variant: the adjustment without its membership test, on a dict that
\* defaults a missing key to 0
AdjustOrInsert(w, k, d) ==
    IF \E i \in DOMAIN w : w[i][1] = k
    THEN [i \in DOMAIN w |-> IF w[i][1] = k THEN <<k, w[i][2] + d>> ELSE w[i]]
    ELSE Append(w, <<k, d>>)

\* variant: weights that never go below 0
AdjustClamped(w, k, d) ==
    [i \in DOMAIN w |->
        IF w[i][1] = k
        THEN <<k, IF w[i][2] + d < 0 THEN 0 ELSE w[i][2] + d>>
        ELSE w[i]]

\* if k in self._hero_weights: self._hero_weights[k] += d
Adjust(w, k, d) == [i \in DOMAIN w |-> IF w[i][1] = k THEN <<k, w[i][2] + d>> ELSE w[i]]

\* for other_hero in others: if other_hero in self._hero_weights: ... += d
RECURSIVE AdjustAll(_, _, _)
AdjustAll(w, others, d) ==
    IF others = <<>> THEN w
    ELSE AdjustAll(Adjust(w, Head(others), d), Tail(others), d)

-----------------------------------------------------------------------------
(* DraftEngine *)

_max_picks == 5

resolve_hero_name(alias) ==
    LET a == Lower(alias)
    IN IF a \in DOMAIN hero_alias_map THEN hero_alias_map[a] ELSE None

\* "if not hero_name": None and the empty str are both falsy
Falsy(v) == v = None \/ v = <<>>

\* a return of (message, False): nothing is assigned
Fail(message) ==
    /\ out' = message
    /\ success' = FALSE
    /\ UNCHANGED draft

\* variant: the capacity test with > for >=
AtCapacityOffByOne(picks) == Len(picks) > _max_picks

\* len(picks) >= self._max_picks
AtCapacity(picks) == Len(picks) >= _max_picks

\* variant: no ban test
BannedNever(hero_name) == FALSE

\* hero_name in self._bans
Banned(hero_name) == In(hero_name, bans)

\* variant: the picked test without the enemy side
AlreadyPickedByAlly(hero_name) == In(hero_name, ally_picks)

\* hero_name in self._ally_picks or hero_name in self._enemy_picks
AlreadyPicked(hero_name) == In(hero_name, ally_picks) \/ In(hero_name, enemy_picks)

\* ally_hero_pick: the pick leaves the pool, then its works_well_with loop
AllyWeights(w, hero_name) ==
    AdjustAll(RemoveKey(w, hero_name), HeroOf(hero_data, hero_name).works_well_with, 1)

\* variant: the ban test ahead of the capacity test
ally_hero_pickBanFirst(hero_pick) ==
    LET hero_name == resolve_hero_name(hero_pick) IN
    /\ op' = "ally_hero_pick"
    /\ arg' = hero_pick
    /\ sorted_weights' = <<>>
    /\ UNCHANGED <<hero_data, hero_alias_map>>
    /\ IF hero_pick = <<>> THEN Fail(<<"Hero argument required">>)
       ELSE IF Falsy(hero_name)
       THEN Fail(<<"No hero name or alias found matching: ", hero_pick>>)
       ELSE IF Banned(hero_name) THEN Fail(<<"Hero ", hero_name, " banned">>)
       ELSE IF AtCapacity(ally_picks) THEN Fail(<<"Max ally hero picks reached">>)
       ELSE IF AlreadyPicked(hero_name)
       THEN Fail(<<"Hero ", hero_name, " already picked">>)
       ELSE /\ ally_picks' = Append(ally_picks, hero_name)
            /\ hero_weights' = AllyWeights(hero_weights, hero_name)
            /\ out' = <<"Ally hero pick: ", hero_name, ", hero weights updated">>
            /\ success' = TRUE
            /\ UNCHANGED <<bans, enemy_picks>>

ally_hero_pick(hero_pick) ==
    LET hero_name == resolve_hero_name(hero_pick) IN
    /\ op' = "ally_hero_pick"
    /\ arg' = hero_pick
    /\ sorted_weights' = <<>>
    /\ UNCHANGED <<hero_data, hero_alias_map>>
    /\ IF hero_pick = <<>> THEN Fail(<<"Hero argument required">>)
       ELSE IF Falsy(hero_name)
       THEN Fail(<<"No hero name or alias found matching: ", hero_pick>>)
       ELSE IF AtCapacity(ally_picks) THEN Fail(<<"Max ally hero picks reached">>)
       ELSE IF Banned(hero_name) THEN Fail(<<"Hero ", hero_name, " banned">>)
       ELSE IF AlreadyPicked(hero_name)
       THEN Fail(<<"Hero ", hero_name, " already picked">>)
       ELSE /\ ally_picks' = Append(ally_picks, hero_name)
            /\ hero_weights' = AllyWeights(hero_weights, hero_name)
            /\ out' = <<"Ally hero pick: ", hero_name, ", hero weights updated">>
            /\ success' = TRUE
            /\ UNCHANGED <<bans, enemy_picks>>

\* enemy_hero_pick: the pick leaves the pool, then its good_against and
\* bad_against loops
EnemyWeights(w, hero_name) ==
    LET h == HeroOf(hero_data, hero_name)
    IN AdjustAll(AdjustAll(RemoveKey(w, hero_name), h.good_against, -1), h.bad_against, 1)

enemy_hero_pick(hero_pick) ==
    LET hero_name == resolve_hero_name(hero_pick) IN
    /\ op' = "enemy_hero_pick"
    /\ arg' = hero_pick
    /\ sorted_weights' = <<>>
    /\ UNCHANGED <<hero_data, hero_alias_map>>
    /\ IF hero_pick = <<>> THEN Fail(<<"Hero argument required">>)
       ELSE IF Falsy(hero_name)
       THEN Fail(<<"No hero name or alias found matching ", hero_pick>>)
       ELSE IF AtCapacity(enemy_picks) THEN Fail(<<"Max enemy hero picks reached">>)
       ELSE IF Banned(hero_name) THEN Fail(<<"Hero ", hero_name, " banned">>)
       ELSE IF AlreadyPicked(hero_name)
       THEN Fail(<<"Hero ", hero_name, " already picked">>)
       ELSE /\ enemy_picks' = Append(enemy_picks, hero_name)
            /\ hero_weights' = EnemyWeights(hero_weights, hero_name)
            /\ out' = <<"Enemy hero pick: ", hero_name, ", hero weights updated">>
            /\ success' = TRUE
            /\ UNCHANGED <<bans, ally_picks>>

\* variant: a ban that adjusts weights as an enemy pick does
BanWeightsAsEnemy(w, hero_name) == EnemyWeights(w, hero_name)

\* ban_hero: the banned hero leaves the pool
BanWeights(w, hero_name) == RemoveKey(w, hero_name)

ban_hero(hero) ==
    LET hero_name == resolve_hero_name(hero) IN
    /\ op' = "ban_hero"
    /\ arg' = hero
    /\ sorted_weights' = <<>>
    /\ UNCHANGED <<hero_data, hero_alias_map>>
    /\ IF hero = <<>> THEN Fail(<<"Hero argument required">>)
       ELSE IF Falsy(hero_name)
       THEN Fail(<<"No hero name or alias found matching ", hero>>)
       ELSE IF Banned(hero_name) THEN Fail(<<"Hero ", hero_name, " already banned">>)
       ELSE IF AlreadyPicked(hero_name)
       THEN Fail(<<"Hero ", hero_name, " already picked">>)
       ELSE /\ bans' = Append(bans, hero_name)
            /\ hero_weights' = BanWeights(hero_weights, hero_name)
            /\ out' = <<"Hero banned: ", hero_name, ", hero weights updated">>
            /\ success' = TRUE
            /\ UNCHANGED <<ally_picks, enemy_picks>>

\* variant: hero_info with the ban and picked tests of the picks
hero_infoOfPool(hero) ==
    LET hero_name == resolve_hero_name(hero) IN
    /\ op' = "hero_info"
    /\ arg' = hero
    /\ sorted_weights' = <<>>
    /\ UNCHANGED <<hero_data, hero_alias_map>>
    /\ IF hero = <<>> THEN Fail(<<"Hero argument required">>)
       ELSE IF Falsy(hero_name)
       THEN Fail(<<"No hero name or alias found matching ", hero>>)
       ELSE IF Banned(hero_name) THEN Fail(<<"Hero ", hero_name, " banned">>)
       ELSE IF AlreadyPicked(hero_name)
       THEN Fail(<<"Hero ", hero_name, " already picked">>)
       ELSE /\ out' = pretty_print(HeroOf(hero_data, hero_name))
            /\ success' = TRUE
            /\ UNCHANGED draft

hero_info(hero) ==
    LET hero_name == resolve_hero_name(hero) IN
    /\ op' = "hero_info"
    /\ arg' = hero
    /\ sorted_weights' = <<>>
    /\ UNCHANGED <<hero_data, hero_alias_map>>
    /\ IF hero = <<>> THEN Fail(<<"Hero argument required">>)
       ELSE IF Falsy(hero_name)
       THEN Fail(<<"No hero name or alias found matching ", hero>>)
       ELSE /\ out' = pretty_print(HeroOf(hero_data, hero_name))
            /\ success' = TRUE
            /\ UNCHANGED draft

\* variant: a reset that clears the lists and keeps the weights
resetListsOnly ==
    /\ op' = "reset"
    /\ arg' = <<>>
    /\ out' = <<>>
    /\ success' = FALSE
    /\ sorted_weights' = <<>>
    /\ bans' = <<>>
    /\ ally_picks' = <<>>
    /\ enemy_picks' = <<>>
    /\ UNCHANGED <<hero_data, hero_alias_map, hero_weights>>

\* reset returns nothing: the recorded message and flag are cleared
reset ==
    /\ op' = "reset"
    /\ arg' = <<>>
    /\ out' = <<>>
    /\ success' = FALSE
    /\ sorted_weights' = <<>>
    /\ bans' = <<>>
    /\ ally_picks' = <<>>
    /\ enemy_picks' = <<>>
    /\ hero_weights' = InitialWeights(hero_data)
    /\ UNCHANGED <<hero_data, hero_alias_map>>

\* variant: insertion in front of the items of equal weight
RECURSIVE InsertByWeightFirst(_, _)
InsertByWeightFirst(s, item) ==
    IF s = <<>> THEN <<item>>
    ELSE IF Head(s)[2] < item[2] THEN <<Head(s)>> \o InsertByWeightFirst(Tail(s), item)
    ELSE <<item>> \o s

\* sorted(): stable insertion of one item behind the items of lower or equal weight
RECURSIVE InsertByWeight(_, _)
InsertByWeight(s, item) ==
    IF s = <<>> THEN <<item>>
    ELSE IF Head(s)[2] <= item[2] THEN <<Head(s)>> \o InsertByWeight(Tail(s), item)
    ELSE <<item>> \o s

\* sorted(items, key=operator.itemgetter(1)): stable, ascending by weight
RECURSIVE SortedByWeight(_, _)
SortedByWeight(acc, items) ==
    IF items = <<>> THEN acc
    ELSE SortedByWeight(InsertByWeight(acc, Head(items)), Tail(items))

\* variant: the sorted list returned without [::-1]
SortedAscending(w) == SortedByWeight(<<>>, w)

\* sorted_hero_weights: sorted(...)[::-1]
SortedHeroWeights(w) == Reverse(SortedByWeight(<<>>, w))

\* sorted_hero_weights returns a list and no flag
sorted_hero_weights ==
    /\ op' = "sorted_hero_weights"
    /\ arg' = <<>>
    /\ out' = <<>>
    /\ success' = FALSE
    /\ sorted_weights' = SortedHeroWeights(hero_weights)
    /\ UNCHANGED <<hero_data, hero_alias_map, draft>>

-----------------------------------------------------------------------------
(* Hero data: the "heroes" collection of the loaded JSON document.  Hero     *)
(* names are distinct, as the keys of _hero_data are; the relation lists are *)
(* the JSON lists as loaded, which nothing validates or de-duplicates.       *)

\* Four heroes with overlapping synergies (A, C and D all work well with B), a
\* hero in both counter lists of another (C for B, A for D), a name that is no hero
\* (Z), a hero listed twice in one list (D), a hero that lists itself (C) and
\* an alias written with upper-case letters only (A's "AM").
CatalogOne ==
    << Hero(<<"A">>, << <<"A", "M">> >>, <<>>, <<>>, << <<"B">>, <<"Z">> >>),
       Hero(<<"B">>, <<>>, << <<"C">>, <<"A">> >>, << <<"C">>, <<"D">> >>, <<>>),
       Hero(<<"C">>, <<>>, << <<"B">>, <<"Z">> >>, << <<"A">>, <<"C">> >>, << <<"B">>, <<"D">> >>),
       Hero(<<"D">>, <<>>, << <<"A">>, <<"A">>, <<"B">> >>, << <<"A">>, <<"C">> >>,
            << <<"B">>, <<"B">> >>) >>

\* Three heroes, one alias of which collides with a name: W, loaded last, claims
\* "io", the lower-cased name of Io.
CatalogTwo ==
    << Hero(<<"I", "o">>, <<>>, << <<"W">> >>, << <<"L">> >>, << <<"L">> >>),
       Hero(<<"L">>, << <<"l", "w">> >>, <<>>, << <<"I", "o">> >>, << <<"W">> >>),
       Hero(<<"W">>, << <<"i", "o">> >>, << <<"L">> >>, << <<"L">> >>, <<>>) >>

Catalogs == {CatalogOne, CatalogTwo}

\* every alias of every hero
AllAliases(data) == UNION {Range(data[i].aliases) : i \in DOMAIN data}

\* the str arguments tried on a catalog: the empty str, a str that names nothing,
\* and every name and alias as written, lower-cased and upper-cased
Inputs(data) ==
    LET written == Range(HeroNames(data)) \cup AllAliases(data)
    IN {<<>>, <<"q">>} \cup written \cup {Lower(s) : s \in written}
         \cup {Upper(s) : s \in written}

-----------------------------------------------------------------------------
(* The engine after DraftEngine(hero_data), and its calls *)

Constructed(data) ==
    /\ hero_data = data
    /\ hero_alias_map = BuildAliasMap(EmptyMap, data)
    /\ hero_weights = InitialWeights(data)
    /\ bans = <<>>
    /\ ally_picks = <<>>
    /\ enemy_picks = <<>>
    /\ op = "init"
    /\ arg = <<>>
    /\ out = <<>>
    /\ success = FALSE
    /\ sorted_weights = <<>>

\* the engine used without a DraftCLI
NoCLI ==
    /\ cmd = <<>>
    /\ printed = <<>>
    /\ pc = "engine"

Init == \E data \in Catalogs : Constructed(data) /\ NoCLI

Next ==
    \/ \E s \in Inputs(hero_data) : ally_hero_pick(s) /\ UNCHANGED cli
    \/ \E s \in Inputs(hero_data) : enemy_hero_pick(s) /\ UNCHANGED cli
    \/ \E s \in Inputs(hero_data) : ban_hero(s) /\ UNCHANGED cli
    \/ \E s \in Inputs(hero_data) : hero_info(s) /\ UNCHANGED cli
    \/ reset /\ UNCHANGED cli
    \/ sorted_hero_weights /\ UNCHANGED cli

Spec == Init /\ [][Next]_vars

-----------------------------------------------------------------------------
(* A full draft: enough heroes for five picks on each side and a ban        *)

\* the number of heroes of the full-draft catalog
FullHeroes == 11

\* Hero i of the full-draft catalog is named by the i-th capital letter; every
\* third hero works well with the last hero, every third counters it, every
\* third is countered by the last but one, and the last counters the last but one.
FullHero(i) ==
    LET name(k) == <<UpperCase[k]>>
        last == FullHeroes
    IN IF i = last THEN Hero(name(i), <<>>, <<name(last - 1)>>, <<>>, <<>>)
       ELSE IF i % 3 = 1 THEN Hero(name(i), <<>>, <<>>, <<>>, <<name(last)>>)
       ELSE IF i % 3 = 2 THEN Hero(name(i), <<>>, <<name(last)>>, <<>>, <<>>)
       ELSE Hero(name(i), <<>>, <<>>, <<name(last - 1)>>, <<>>)

FullCatalog == [i \in 1 .. FullHeroes |-> FullHero(i)]

\* The heroes of a full draft are picked in catalog order: the arguments tried
\* for a pick or an info query are the empty str, a str that names nothing, the
\* first hero of the catalog, the first hero still in _hero_weights and the
\* banned heroes.
FullInputs ==
    {<<>>, <<"q">>, hero_data[1].name}
        \cup (IF hero_weights = <<>> THEN {} ELSE {hero_weights[1][1]})
        \cup Range(bans)

\* The bans tried in a full draft are of the first and of the last hero of the
\* catalog, at any time.
FullBanInputs ==
    {<<>>, <<"q">>, hero_data[1].name, hero_data[Len(hero_data)].name}

FullInit == Constructed(FullCatalog) /\ NoCLI

FullNext ==
    \/ \E s \in FullInputs : ally_hero_pick(s) /\ UNCHANGED cli
    \/ \E s \in FullInputs : enemy_hero_pick(s) /\ UNCHANGED cli
    \/ \E s \in FullBanInputs : ban_hero(s) /\ UNCHANGED cli
    \/ \E s \in FullInputs : hero_info(s) /\ UNCHANGED cli

FullSpec == FullInit /\ [][FullNext]_vars

-----------------------------------------------------------------------------
(* DraftCLI: the prompt loop around the engine                              *)

\* the characters str.split() takes as separators
Whitespace == {" ", "\t"}

\* cmd.split(): the words of s; words are those completed, word the one being read
RECURSIVE split(_, _, _)
split(s, words, word) ==
    LET completed == IF word = <<>> THEN words ELSE Append(words, word)
    IN IF s = <<>> THEN completed
       ELSE IF Head(s) \in Whitespace THEN split(Tail(s), completed, <<>>)
       ELSE split(Tail(s), words, Append(word, Head(s)))

\* sep.join(words)
RECURSIVE join(_, _)
join(sep, words) ==
    IF words = <<>> THEN <<>>
    ELSE IF Len(words) = 1 THEN words[1]
    ELSE words[1] \o sep \o join(sep, Tail(words))

\* the one line _help() prints
Help ==
    <<"Help:", "h, help", "q, quit", "r, reset", "s, status", "b <hero>, ban <hero>",
      "a <hero>, ally <hero>", "e <hero>, enemy <hero>", "i <hero>, info <hero>">>

num_best == 15
num_worst == 5

\* print(f'  {weights[i][1]}, {weights[i][0]}'), the weight kept as a number
WeightLine(item) == <<"  ", item[2], ", ", item[1]>>

\* the lines _display_hero_weights prints after its assertions; the lists stand
\* for their ', '.join as in pretty_print
StatusLines(weights) ==
    LET num_heroes == Len(weights)
    IN << <<"Status:">>,
          <<"Bans: ", bans'>>,
          <<"Enemy picks: ", enemy_picks'>>,
          <<"Ally picks: ", ally_picks'>>,
          <<"best picks and worst picks:", num_best, num_worst>> >>
       \o [i \in 1 .. num_best |-> WeightLine(weights[i])]
       \o << <<"...">> >>
       \o [i \in 1 .. num_worst |-> WeightLine(weights[num_heroes - num_worst + i])]

\* _display_hero_weights(), called when the command has printed the lines
\* before and the engine is in its new state; weights is its local
_display_hero_weights(before) ==
    LET weights == SortedHeroWeights(hero_weights')
        num_heroes == Len(weights)
    IN IF num_heroes >= num_best /\ num_heroes >= num_worst
       THEN /\ printed' = before \o StatusLines(weights)
            /\ pc' = "prompt"
       ELSE /\ printed' = before
            /\ pc' = "AssertionError"

\* print(out) with nothing after it
PrintOut ==
    /\ printed' = <<out'>>
    /\ pc' = "prompt"

\* _prompt() and _process_command(c): one line read and processed
_process_command(c) ==
    LET cmd_split == split(c, <<>>, <<>>)
        cmd_base == cmd_split[1]
        cmd_params == IF Len(cmd_split) > 1 THEN join(<<" ">>, Tail(cmd_split)) ELSE <<>>
    IN
    /\ pc = "prompt"
    /\ cmd' = c
    /\ IF cmd_split = <<>>
       THEN printed' = <<>> /\ pc' = "prompt" /\ UNCHANGED engine
       ELSE IF cmd_base \in {<<"h">>, <<"h", "e", "l", "p">>}
       THEN printed' = <<Help>> /\ pc' = "prompt" /\ UNCHANGED engine
       ELSE IF cmd_base \in {<<"q">>, <<"q", "u", "i", "t">>}
       THEN printed' = << <<"Quitting">> >> /\ pc' = "quit" /\ UNCHANGED engine
       ELSE IF cmd_base \in {<<"r">>, <<"r", "e", "s", "e", "t">>}
       THEN reset /\ printed' = << <<"Reset draft engine">> >> /\ pc' = "prompt"
       ELSE IF cmd_base \in {<<"s">>, <<"s", "t", "a", "t", "u", "s">>}
       THEN UNCHANGED engine /\ _display_hero_weights(<<>>)
       ELSE IF cmd_base \in {<<"a">>, <<"a", "l", "l", "y">>}
       THEN /\ ally_hero_pick(cmd_params)
            /\ IF success' THEN _display_hero_weights(<<out'>>) ELSE PrintOut
       ELSE IF cmd_base \in {<<"e">>, <<"e", "n", "e", "m", "y">>}
       THEN /\ enemy_hero_pick(cmd_params)
            /\ IF success' THEN _display_hero_weights(<<out'>>) ELSE PrintOut
       ELSE IF cmd_base \in {<<"b">>, <<"b", "a", "n">>}
       THEN ban_hero(cmd_params) /\ PrintOut
       ELSE IF cmd_base \in {<<"i">>, <<"i", "n", "f", "o">>}
       THEN hero_info(cmd_params) /\ PrintOut
       ELSE printed' = << <<"Invalid command">>, Help >> /\ pc' = "prompt" /\ UNCHANGED engine

\* DraftCLI(hero_data)
DraftCLI(data) ==
    /\ Constructed(data)
    /\ cmd = <<>>
    /\ printed = << <<"Draft engine initialized">>, Help >>
    /\ pc = "prompt"

\* Hero i of a catalog of last heroes: the relations of the full-draft catalog,
\* and the last hero has an alias of two words
CliHero(i, last) ==
    LET name(k) == <<UpperCase[k]>>
        two == <<LowerCase[last], " ", LowerCase[last]>>
    IN IF i = last THEN Hero(name(i), <<two>>, <<name(last - 1)>>, <<>>, <<>>)
       ELSE IF i % 3 = 1 THEN Hero(name(i), <<>>, <<>>, <<>>, <<name(last)>>)
       ELSE IF i % 3 = 2 THEN Hero(name(i), <<>>, <<name(last)>>, <<>>, <<>>)
       ELSE Hero(name(i), <<>>, <<>>, <<name(last - 1)>>, <<>>)

CliCatalog(n) == [i \in 1 .. n |-> CliHero(i, n)]

\* hero arguments typed: none, an unknown name, the first hero left in the pool
CliHeroInputs ==
    {<<>>, <<"q">>}
        \cup (IF hero_weights = <<>> THEN {} ELSE {Lower(hero_weights[1][1])})

\* the lines typed at the prompt
CliInputs ==
    LET last == LowerCase[Len(hero_data)]
    IN {<<>>, <<" ", "\t">>, <<"x">>,
        <<"h">>, <<"h", "e", "l", "p">>, <<"q">>, <<"q", "u", "i", "t">>,
        <<"r">>, <<"r", "e", "s", "e", "t">>, <<"s">>, <<"s", "t", "a", "t", "u", "s">>,
        <<" ", "a", " ", " ", last, "\t", last, " ">>}
       \cup {base \o <<" ">> \o hero :
               base \in {<<"a">>, <<"a", "l", "l", "y">>, <<"e">>, <<"e", "n", "e", "m", "y">>,
                         <<"b">>, <<"b", "a", "n">>, <<"i">>, <<"i", "n", "f", "o">>},
               hero \in CliHeroInputs}

\* main(): a catalog of just enough heroes for the status display, or one more
CliInit == \E n \in {num_best, num_best + 1} : DraftCLI(CliCatalog(n))

\* run(): prompt until a command returns False or raises
CliNext == \E c \in CliInputs : _process_command(c)

CliSpec == CliInit /\ [][CliNext]_vars

-----------------------------------------------------------------------------
(* Properties *)

\* the hero a call's argument resolved to (the alias map never changes)
Resolved == resolve_hero_name(arg)

Drafted == bans \o ally_picks \o enemy_picks

CatalogNames == Range(HeroNames(hero_data))

\* C1: each hero name occurs at most once in bans, ally_picks and enemy_picks
\* taken together.
DraftedOnce ==
    \A i, j \in DOMAIN Drafted : Drafted[i] = Drafted[j] => i = j

\* C1 witness: all three lists are filled and a pick of a banned hero was refused.
DraftedOnceWitness ==
    /\ bans # <<>> /\ ally_picks # <<>> /\ enemy_picks # <<>>
    /\ op = "ally_hero_pick" /\ ~success
    /\ In(Resolved, bans)

\* C2: the keys of hero_weights are exactly the catalog heroes that are neither
\* banned nor picked, each key once; a name found only in a relation list is
\* never a key.
WeightsAreUndrafted ==
    /\ Keys(hero_weights) = CatalogNames \ Range(Drafted)
    /\ Cardinality(Keys(hero_weights)) = Len(hero_weights)

\* C2 witness: a hero whose lists name a non-hero was picked, another hero was
\* banned, and heroes remain.
WeightsAreUndraftedWitness ==
    /\ \E i \in DOMAIN ally_picks :
          \E n \in Range(HeroOf(hero_data, ally_picks[i]).works_well_with) :
              n \notin CatalogNames
    /\ \E i \in DOMAIN enemy_picks :
          \E n \in Range(HeroOf(hero_data, enemy_picks[i]).good_against) :
              n \notin CatalogNames
    /\ bans # <<>>
    /\ hero_weights # <<>>

\* C3: neither side ever holds more than 5 picks, and a pick tried on a side
\* that holds 5 returns success=false and leaves the draft as it was.
PicksCapped ==
    [][ /\ Len(ally_picks') <= 5
        /\ Len(enemy_picks') <= 5
        /\ (op' = "ally_hero_pick" /\ Len(ally_picks) >= 5)
              => (success' = FALSE /\ UNCHANGED draft)
        /\ (op' = "enemy_hero_pick" /\ Len(enemy_picks) >= 5)
              => (success' = FALSE /\ UNCHANGED draft) ]_vars

\* C3 witness: an ally pick of a hero still in the pool was refused with the
\* ally side at 5 and the enemy side neither empty nor full.
PicksCappedWitness ==
    /\ op = "ally_hero_pick" /\ ~success
    /\ Len(ally_picks) = 5
    /\ Len(enemy_picks) = 2
    /\ HasKey(hero_weights, Resolved)

\* C4: a pick of a hero already picked or banned, and a ban of a hero already
\* banned or picked, return success=false and leave the draft as it was.
NoSecondDraft ==
    [][ LET h == resolve_hero_name(arg')
            drafted == In(h, bans) \/ In(h, ally_picks) \/ In(h, enemy_picks)
        IN (op' \in {"ally_hero_pick", "enemy_hero_pick", "ban_hero"} /\ drafted)
              => (success' = FALSE /\ UNCHANGED draft) ]_vars

\* C4 witness: an ally pick of a hero the enemy holds was refused.
NoSecondDraftWitness ==
    /\ op = "ally_hero_pick" /\ ~success
    /\ In(Resolved, enemy_picks)

\* the number of times a list names X
Listed(X, list) == Count(X, list)

\* C5: a successful ally pick of A appends A to ally_picks, removes A
\* from hero_weights, raises by exactly 1 every remaining hero that A's
\* works_well_with names, and changes no other weight, bans or enemy_picks.
AllyPickAddsOne ==
    [][ (op' = "ally_hero_pick" /\ success' = TRUE) =>
          LET A == resolve_hero_name(arg')
              www == HeroOf(hero_data, A).works_well_with
          IN /\ ally_picks' = Append(ally_picks, A)
             /\ Keys(hero_weights') = Keys(hero_weights) \ {A}
             /\ \A X \in Keys(hero_weights') :
                   WeightOf(hero_weights', X)
                     = WeightOf(hero_weights, X) + (IF In(X, www) THEN 1 ELSE 0)
             /\ UNCHANGED <<bans, enemy_picks>> ]_vars

\* What ally_hero_pick does: a successful ally pick of A appends A to
\* ally_picks, removes A from hero_weights, raises every remaining hero by the
\* number of times A's works_well_with list names it, and changes no other
\* weight, bans or enemy_picks.
AllyPickAddsPerEntry ==
    [][ (op' = "ally_hero_pick" /\ success' = TRUE) =>
          LET A == resolve_hero_name(arg')
              www == HeroOf(hero_data, A).works_well_with
          IN /\ ally_picks' = Append(ally_picks, A)
             /\ Keys(hero_weights') = Keys(hero_weights) \ {A}
             /\ \A X \in Keys(hero_weights') :
                   WeightOf(hero_weights', X) = WeightOf(hero_weights, X) + Listed(X, www)
             /\ UNCHANGED <<bans, enemy_picks>> ]_vars

\* Reached: two ally picks in a row, and nothing else, whose works_well_with
\* lists share a hero still in the pool, which stands at 2.
AllyPickAddsWitness ==
    /\ op = "ally_hero_pick" /\ success
    /\ Len(ally_picks) = 2 /\ bans = <<>> /\ enemy_picks = <<>>
    /\ \E X \in Keys(hero_weights) :
          /\ Listed(X, HeroOf(hero_data, ally_picks[1]).works_well_with) = 1
          /\ Listed(X, HeroOf(hero_data, ally_picks[2]).works_well_with) = 1
          /\ WeightOf(hero_weights, X) = 2

\* C6: a successful enemy pick of E appends E to enemy_picks, removes
\* E from hero_weights, lowers by 1 a remaining hero only in good_against, raises
\* by 1 one only in bad_against, leaves one in both unchanged, and changes no
\* other weight, bans or ally_picks.
EnemyPickAddsOne ==
    [][ (op' = "enemy_hero_pick" /\ success' = TRUE) =>
          LET E == resolve_hero_name(arg')
              good == HeroOf(hero_data, E).good_against
              bad == HeroOf(hero_data, E).bad_against
          IN /\ enemy_picks' = Append(enemy_picks, E)
             /\ Keys(hero_weights') = Keys(hero_weights) \ {E}
             /\ \A X \in Keys(hero_weights') :
                   WeightOf(hero_weights', X)
                     = WeightOf(hero_weights, X)
                         + (IF In(X, bad) /\ ~In(X, good) THEN 1 ELSE 0)
                         - (IF In(X, good) /\ ~In(X, bad) THEN 1 ELSE 0)
             /\ UNCHANGED <<bans, ally_picks>> ]_vars

\* What enemy_hero_pick does: a successful enemy pick of E appends E to
\* enemy_picks, removes E from hero_weights, changes every remaining hero by the
\* number of times bad_against names it minus the number of times good_against
\* names it, and changes no other weight, bans or ally_picks.
EnemyPickAddsPerEntry ==
    [][ (op' = "enemy_hero_pick" /\ success' = TRUE) =>
          LET E == resolve_hero_name(arg')
              good == HeroOf(hero_data, E).good_against
              bad == HeroOf(hero_data, E).bad_against
          IN /\ enemy_picks' = Append(enemy_picks, E)
             /\ Keys(hero_weights') = Keys(hero_weights) \ {E}
             /\ \A X \in Keys(hero_weights') :
                   WeightOf(hero_weights', X)
                     = WeightOf(hero_weights, X) + Listed(X, bad) - Listed(X, good)
             /\ UNCHANGED <<bans, ally_picks>> ]_vars

\* Reached: the enemy pick just made lists a drafted hero, a remaining hero
\* once in each list and a remaining hero in one list only.
EnemyPickAddsWitness ==
    /\ op = "enemy_hero_pick" /\ success
    /\ LET E == HeroOf(hero_data, enemy_picks[Len(enemy_picks)])
           both == E.good_against \o E.bad_against
       IN /\ \E Y \in Range(bans) \cup Range(ally_picks) : In(Y, both)
          /\ \E X \in Keys(hero_weights) :
                Listed(X, E.good_against) = 1 /\ Listed(X, E.bad_against) = 1
          /\ \E X \in Keys(hero_weights) :
                Listed(X, E.good_against) = 0 /\ Listed(X, E.bad_against) = 1

\* C7: a ban of a catalog hero that is neither picked nor banned succeeds,
\* however many picks and bans there are; a successful ban of H appends H to
\* bans, removes H from hero_weights and changes no other weight, ally_picks or
\* enemy_picks.
BanOnlyRemoves ==
    [][ op' = "ban_hero" =>
          LET H == resolve_hero_name(arg')
          IN /\ (H \in CatalogNames /\ ~In(H, Drafted)) => success' = TRUE
             /\ success' = TRUE =>
                  /\ bans' = Append(bans, H)
                  /\ Keys(hero_weights') = Keys(hero_weights) \ {H}
                  /\ \A X \in Keys(hero_weights') :
                        WeightOf(hero_weights', X) = WeightOf(hero_weights, X)
                  /\ UNCHANGED <<ally_picks, enemy_picks>> ]_vars

\* C7 witness: a ban succeeded with 5 picks on each side.
BanOnlyRemovesWitness ==
    /\ op = "ban_hero" /\ success
    /\ Len(ally_picks) = 5 /\ Len(enemy_picks) = 5
    /\ bans = <<Resolved>>

\* C8: reset leaves bans, ally_picks and enemy_picks empty and hero_weights with
\* every catalog hero at 0 in catalog order, as after construction; it leaves
\* the catalog and the alias map alone, and a second reset changes nothing.
ResetRestores ==
    [][ op' = "reset" =>
          /\ bans' = <<>> /\ ally_picks' = <<>> /\ enemy_picks' = <<>>
          /\ Len(hero_weights') = Len(hero_data)
          /\ \A i \in DOMAIN hero_data : hero_weights'[i] = <<hero_data[i].name, 0>>
          /\ UNCHANGED <<hero_data, hero_alias_map>>
          /\ op = "init" => draft' = draft
          /\ op = "reset" => draft' = draft ]_vars

\* C8 witness: a reset has run.
ResetRestoresWitness ==
    /\ op = "reset"
    /\ Len(hero_weights) = Len(hero_data)

\* the position of a hero in the catalog load order
LoadIndex(name) == CHOOSE i \in DOMAIN hero_data : hero_data[i].name = name

\* C9: sorted_hero_weights returns the items of hero_weights, each once, with
\* no weight below the weight that follows it, and leaves the draft alone.
SortedDescending ==
    [][ op' = "sorted_hero_weights" =>
          /\ UNCHANGED draft
          /\ Len(sorted_weights') = Len(hero_weights)
          /\ Range(sorted_weights') = Range(hero_weights)
          /\ \A i \in DOMAIN hero_weights : Count(hero_weights[i], sorted_weights') = 1
          /\ \A i \in 1 .. Len(sorted_weights') - 1 :
                sorted_weights'[i][2] >= sorted_weights'[i + 1][2] ]_vars

\* C9 witness: a returned list of at least three heroes with a raised and a
\* lowered weight in it.
SortedDescendingWitness ==
    /\ op = "sorted_hero_weights"
    /\ Len(sorted_weights) >= 3
    /\ sorted_weights[1][2] > 0
    /\ sorted_weights[Len(sorted_weights)][2] < 0

\* C10: in the returned list two heroes of equal weight stand in catalog
\* load order.
TiesInLoadOrder ==
    op = "sorted_hero_weights" =>
        \A i, j \in DOMAIN sorted_weights :
            (i < j /\ sorted_weights[i][2] = sorted_weights[j][2])
                => LoadIndex(sorted_weights[i][1]) < LoadIndex(sorted_weights[j][1])

\* C10 amended: in the returned list two heroes of equal weight stand in the
\* reverse of catalog load order.
TiesInReverseLoadOrder ==
    op = "sorted_hero_weights" =>
        \A i, j \in DOMAIN sorted_weights :
            (i < j /\ sorted_weights[i][2] = sorted_weights[j][2])
                => LoadIndex(sorted_weights[i][1]) > LoadIndex(sorted_weights[j][1])

\* C10 witness: a returned list with two heroes of equal weight and a third of
\* another weight.
TiesWitness ==
    /\ op = "sorted_hero_weights"
    /\ \E i, j, k \in DOMAIN sorted_weights :
          /\ i < j
          /\ sorted_weights[i][2] = sorted_weights[j][2]
          /\ sorted_weights[k][2] # sorted_weights[i][2]

\* the letter cases tried for a str: as written, lower-cased and upper-cased
Cased(s) == {s, Lower(s), Upper(s)}

\* C11: every alias listed for a hero, in any letter case, resolves to that
\* hero's name.
AliasesResolve ==
    \A i \in DOMAIN hero_data :
        \A a \in Range(hero_data[i].aliases) :
            \A s \in Cased(a) : resolve_hero_name(s) = hero_data[i].name

\* the keys a reader of the data would call registered: the aliases and the
\* lower-cased hero names
Registered == AllAliases(hero_data) \cup {Lower(n) : n \in CatalogNames}

\* C12: every hero's own name, in any letter case, resolves to that hero,
\* whatever aliases the other heroes declare, and a str whose lower-case form
\* is neither an alias nor a lower-cased hero name resolves to None.
NamesResolve ==
    /\ \A i \in DOMAIN hero_data :
          \A s \in Cased(hero_data[i].name) : resolve_hero_name(s) = hero_data[i].name
    /\ \A s \in Inputs(hero_data) :
          Lower(s) \notin Registered => resolve_hero_name(s) = None

\* C13: a pick or ban reports the first failing test in the order empty
\* argument, unresolved alias, side at capacity (picks only), hero banned, hero
\* already picked, and a failure of any test leaves the draft as it was.
ValidationOrder ==
    [][ op' \in {"ally_hero_pick", "enemy_hero_pick", "ban_hero"} =>
          LET h == resolve_hero_name(arg')
              refused(message) == out' = message /\ success' = FALSE /\ UNCHANGED draft
          IN IF arg' = <<>> THEN refused(<<"Hero argument required">>)
             ELSE IF h = None
             THEN refused(IF op' = "ally_hero_pick"
                          THEN <<"No hero name or alias found matching: ", arg'>>
                          ELSE <<"No hero name or alias found matching ", arg'>>)
             ELSE IF op' = "ally_hero_pick" /\ Len(ally_picks) >= 5
             THEN refused(<<"Max ally hero picks reached">>)
             ELSE IF op' = "enemy_hero_pick" /\ Len(enemy_picks) >= 5
             THEN refused(<<"Max enemy hero picks reached">>)
             ELSE IF In(h, bans)
             THEN refused(IF op' = "ban_hero" THEN <<"Hero ", h, " already banned">>
                          ELSE <<"Hero ", h, " banned">>)
             ELSE IF In(h, ally_picks) \/ In(h, enemy_picks)
             THEN refused(<<"Hero ", h, " already picked">>)
             ELSE success' = TRUE ]_vars

\* C13 witness: an ally pick of a banned hero on a side that holds 5 was refused
\* with the max-picks message.
ValidationOrderWitness ==
    /\ op = "ally_hero_pick"
    /\ out = <<"Max ally hero picks reached">>
    /\ Len(ally_picks) = 5
    /\ In(Resolved, bans)

\* C15: hero_info leaves the draft as it was, succeeds for every argument that
\* resolves to a catalog hero, whether banned, picked or on a full side, and
\* fails only for the empty argument and for an unresolved alias.
InfoOnlyReads ==
    [][ op' = "hero_info" =>
          /\ UNCHANGED draft
          /\ success' = (arg' # <<>> /\ resolve_hero_name(arg') \in CatalogNames)
          /\ success' = (arg' # <<>> /\ resolve_hero_name(arg') # None) ]_vars

\* C15 witness: hero_info succeeded for a banned hero with 5 picks on each side.
InfoOnlyReadsWitness ==
    /\ op = "hero_info" /\ success
    /\ In(Resolved, bans)
    /\ Len(ally_picks) = 5 /\ Len(enemy_picks) = 5

\* s is a prefix of t
IsPrefix(s, t) == Len(s) <= Len(t) /\ \A i \in DOMAIN s : s[i] = t[i]

\* C16: a step of any operation but reset keeps bans, ally_picks and enemy_picks
\* as prefixes of the new lists and adds no key to hero_weights, so a removed
\* hero stays out of hero_weights and of the list sorted_hero_weights returns.
DraftOnlyGrows ==
    [][ op' # "reset" =>
          /\ IsPrefix(bans, bans')
          /\ IsPrefix(ally_picks, ally_picks')
          /\ IsPrefix(enemy_picks, enemy_picks')
          /\ Keys(hero_weights') \subseteq Keys(hero_weights)
          /\ Keys(sorted_weights') \subseteq Keys(hero_weights) ]_vars

\* C16 witness: a pick succeeded whose relation lists name a hero drafted before.
DraftOnlyGrowsWitness ==
    /\ op \in {"ally_hero_pick", "enemy_hero_pick"} /\ success
    /\ LET h == HeroOf(hero_data, Resolved)
       IN \E n \in Range(h.works_well_with \o h.good_against \o h.bad_against) :
             n # Resolved /\ In(n, Drafted)

\* the pool after the drafted heroes of the catalog, from hero i on, are
\* replayed in catalog order with the roles they have now
RECURSIVE ReplayInLoadOrder(_, _)
ReplayInLoadOrder(w, i) ==
    IF i > Len(hero_data) THEN w
    ELSE LET n == hero_data[i].name
         IN ReplayInLoadOrder(
                IF In(n, ally_picks) THEN AllyWeights(w, n)
                ELSE IF In(n, enemy_picks) THEN EnemyWeights(w, n)
                ELSE IF In(n, bans) THEN BanWeights(w, n)
                ELSE w,
                i + 1)

\* C17: the weights do not depend on the order of the picks and bans: in every
\* state hero_weights is what the same heroes in the same roles give when
\* drafted in catalog order from the reset state.
OrderIndependent ==
    hero_weights = ReplayInLoadOrder(InitialWeights(hero_data), 1)

\* C17 witness: three heroes drafted against catalog order, a weight raised and
\* a weight lowered on the way.
OrderIndependentWitness ==
    /\ Len(Drafted) >= 3
    /\ \E i, j \in DOMAIN Drafted :
          i < j /\ LoadIndex(Drafted[i]) > LoadIndex(Drafted[j])
    /\ ally_picks # <<>> /\ enemy_picks # <<>>
    /\ \E X \in Keys(hero_weights) : WeightOf(hero_weights, X) # 0

\* the number of heroes of a pick list whose relation list names X
Naming(X, picks, relation(_)) ==
    Cardinality({i \in DOMAIN picks : In(X, relation(HeroOf(hero_data, picks[i])))})

WorksWellWith(h) == h.works_well_with
GoodAgainst(h) == h.good_against
BadAgainst(h) == h.bad_against

\* C18: the weight of every hero X in hero_weights is the number of ally picks
\* whose works_well_with names X plus the number of enemy picks whose
\* bad_against names X minus the number of enemy picks whose good_against
\* names X, and lies between -5 and 10.
WeightClosedForm ==
    \A X \in Keys(hero_weights) :
        /\ WeightOf(hero_weights, X)
             = Naming(X, ally_picks, WorksWellWith) + Naming(X, enemy_picks, BadAgainst)
                 - Naming(X, enemy_picks, GoodAgainst)
        /\ WeightOf(hero_weights, X) \in -5 .. 10

\* C14: with a catalog of at least 15 heroes, in every state any sequence of
\* commands reaches, at least 15 (and at least 5) heroes remain in hero_weights
\* and no status display, asked for or automatic, has failed its assertion.
StatusNeverFails ==
    Len(hero_data) >= 15 =>
        /\ Len(hero_weights) >= 15
        /\ Len(hero_weights) >= 5
        /\ pc # "AssertionError"

\* the lines hold a status display
Refreshed(lines) == \E i \in DOMAIN lines : lines[i][1] = "Status:"

\* the first word of a pick, ban or info command
OperationWords ==
    {<<"a">>, <<"a", "l", "l", "y">>, <<"e">>, <<"e", "n", "e", "m", "y">>,
     <<"b">>, <<"b", "a", "n">>, <<"i">>, <<"i", "n", "f", "o">>}

\* C19: every pick, ban or info command prints the message of its operation;
\* a successful ally pick, enemy pick or ban is followed by a status display
\* before the next line is read, and a failed operation by none.
RefreshAfterSuccess ==
    [][ LET words == split(cmd', <<>>, <<>>)
        IN (words # <<>> /\ words[1] \in OperationWords) =>
              /\ printed' # <<>> /\ printed'[1] = out'
              /\ (success' /\ op' # "hero_info") => Refreshed(printed')
              /\ ~success' => ~Refreshed(printed') ]_vars

====
